---------------------------- MODULE Spec2Model ----------------------------
(***************************************************************************)
(* A model of the fixture core of kanqiu-v3-mobile:                        *)
(*   reminder_utils.py  the reminder rule engine                           *)
(*   core_logic.py      team catalog, fetch, parse, orchestration and      *)
(*                      aggregation                                        *)
(* Strings are sequences of one-character strings, so that lower(),        *)
(* strip(), replace() and the timestamp parser and formatter are computed  *)
(* character by character, as the Python code computes them.               *)
(***************************************************************************)
EXTENDS Integers, Sequences, FiniteSets, TLC

VARIABLES
  \* reminder_utils.calculate_reminder_time: one call
  match_datetime_str,   \* the argument
  HAS_CHINESE_CALENDAR, \* module flag set by the import at load time
  lookup,               \* what chinesecalendar.is_holiday does for the date
  reminder,             \* the call's outcome: [raised, value], or NoOutcome
  \* core_logic.normalize_team_name: two calls in a row
  name_in,              \* the argument of the first call
  norm_once,            \* outcome of normalize_team_name(name_in)
  norm_twice,           \* outcome of normalize_team_name(norm_once.value)
  \* core_logic.get_formatted_fixtures: one request
  pc,                   \* where the calling thread is
  all_fixtures,         \* the list the fetched fixtures are gathered in
  now_utc,              \* datetime.now(pytz.UTC) of line 263, in seconds
  results,              \* the returned list, in output order
  task,                 \* per submitted team: new, queued, running, finished
  future,               \* per team: how its task ended (what its future holds)
  early,                \* the futures as_completed found done on entry
  waiter,               \* the futures finished since, in finishing order
  collected,            \* the futures the as_completed loop has handled
  \* core_logic.parse_fixtures: one call
  html,                 \* the fetched page: NoPage, or its data-state elements
  team_name,            \* the team the page was fetched for
  parse_now,            \* datetime.now() of line 135, a naive datetime
  parsed,               \* [returned, fixtures]: the list the call returned
  \* core_logic.get_team_fixtures: one call
  cycle_pc,             \* where the call is: call, first, done
  cycle_team,           \* the argument team_name
  cycle_now,            \* datetime.now() of lines 135 and 227
  requests,             \* every requests.get made: its url and how it ended
  cycle_fixtures,       \* the list fixtures of line 220
  \* web_app.export_calendar and main.execute_add_to_calendar, for one match
  \* whose time is match_datetime_str
  ics,                  \* [done, events]: the components added to the Calendar
  android               \* [done, events]: the rows inserted through the resolver

reminderVars == <<match_datetime_str, HAS_CHINESE_CALENDAR, lookup, reminder>>
normalizeVars == <<name_in, norm_once, norm_twice>>
requestVars == <<pc, all_fixtures, now_utc, results, task, future, early, waiter, collected>>
parserVars == <<html, team_name, parse_now, parsed>>
cycleVars == <<cycle_pc, cycle_team, cycle_now, requests, cycle_fixtures>>
calendarVars == <<ics, android>>
vars == <<reminderVars, normalizeVars, requestVars, parserVars, cycleVars, calendarVars>>

-----------------------------------------------------------------------------
(* Characters and strings *)

Digits == <<"0","1","2","3","4","5","6","7","8","9">>
UpperCase == <<"A","B","C","D","E","F","G","H","I","J","K","L","M",
               "N","O","P","Q","R","S","T","U","V","W","X","Y","Z">>
LowerCase == <<"a","b","c","d","e","f","g","h","i","j","k","l","m",
               "n","o","p","q","r","s","t","u","v","w","x","y","z">>
Whitespace == {" ", "\t", "\n"}

IsDigit(c) == \E i \in 1..10 : Digits[i] = c
DigitVal(c) == (CHOOSE i \in 1..10 : Digits[i] = c) - 1

\* str.lower() on one character
LowerChar(c) ==
  IF \E i \in 1..26 : UpperCase[i] = c
  THEN LowerCase[CHOOSE i \in 1..26 : UpperCase[i] = c]
  ELSE c

\* str.lower()
Lower(s) == [i \in 1..Len(s) |-> LowerChar(s[i])]

\* str.replace(old, new) for single characters
Replace(s, old, new) == [i \in 1..Len(s) |-> IF s[i] = old THEN new ELSE s[i]]

\* str.strip(): leading and trailing whitespace removed
Strip(s) ==
  LET keep == {i \in 1..Len(s) : s[i] \notin Whitespace}
  IN IF keep = {} THEN <<>>
     ELSE LET lo == CHOOSE i \in keep : \A j \in keep : i <= j
              hi == CHOOSE i \in keep : \A j \in keep : j <= i
          IN SubSeq(s, lo, hi)

\* Python's "sub in s"
Contains(s, sub) ==
  \E i \in 0..(Len(s) - Len(sub)) : SubSeq(s, i + 1, i + Len(sub)) = sub

\* s.split(c): the parts of s between occurrences of character c
RECURSIVE Split(_, _)
Split(s, c) ==
  IF \A i \in 1..Len(s) : s[i] # c THEN <<s>>
  ELSE LET k == CHOOSE i \in 1..Len(s) : s[i] = c /\ \A j \in 1..(i-1) : s[j] # c
       IN <<SubSeq(s, 1, k - 1)>> \o Split(SubSeq(s, k + 1, Len(s)), c)

AllDigits(s) == \A i \in 1..Len(s) : IsDigit(s[i])

\* int() of a digit string
RECURSIVE ToInt(_)
ToInt(s) ==
  IF s = <<>> THEN 0
  ELSE 10 * ToInt(SubSeq(s, 1, Len(s) - 1)) + DigitVal(s[Len(s)])

\* a number printed with two digits (%m %d %H %M) and with four (%Y)
Pad2(n) == <<Digits[((n \div 10) % 10) + 1], Digits[(n % 10) + 1]>>
Pad4(n) == <<Digits[((n \div 1000) % 10) + 1], Digits[((n \div 100) % 10) + 1]>> \o Pad2(n % 100)

-----------------------------------------------------------------------------
(* The proleptic Gregorian calendar of Python's datetime *)

IsLeap(y) == y % 4 = 0 /\ (y % 100 # 0 \/ y % 400 = 0)

DaysInMonth(y, m) ==
  IF m = 2 THEN (IF IsLeap(y) THEN 29 ELSE 28)
  ELSE IF m \in {4, 6, 9, 11} THEN 30 ELSE 31

DaysBeforeYear(y) ==
  (y - 1) * 365 + (y - 1) \div 4 - (y - 1) \div 100 + (y - 1) \div 400

RECURSIVE DaysBeforeMonth(_, _)
DaysBeforeMonth(y, m) ==
  IF m = 1 THEN 0 ELSE DaysBeforeMonth(y, m - 1) + DaysInMonth(y, m - 1)

\* date.toordinal(): 1 is 0001-01-01
ToOrdinal(y, m, d) == DaysBeforeYear(y) + DaysBeforeMonth(y, m) + d

\* date.weekday(): Monday is 0, Sunday is 6
Weekday(y, m, d) == (ToOrdinal(y, m, d) + 6) % 7

ValidDate(y, m, d) == m \in 1..12 /\ d \in 1..DaysInMonth(y, m)

\* a naive datetime: the civil fields, as datetime keeps them
DateTime(y, m, d, H, M) == [year |-> y, month |-> m, day |-> d, hour |-> H, minute |-> M]

\* the datetime as a count of minutes: the scale of datetime arithmetic
ToMinutes(dt) == ToOrdinal(dt.year, dt.month, dt.day) * 1440 + dt.hour * 60 + dt.minute

\* the years datetime arithmetic of the model can land in
CalendarYears == 2021..2029

\* the datetime at a number of minutes on that scale
FromMinutes(n) ==
  LET ord == n \div 1440
      y == CHOOSE yy \in CalendarYears :
             DaysBeforeYear(yy) < ord /\ ord <= DaysBeforeYear(yy + 1)
      m == CHOOSE mm \in 1..12 :
             /\ DaysBeforeMonth(y, mm) < ord - DaysBeforeYear(y)
             /\ ord - DaysBeforeYear(y) <= DaysBeforeMonth(y, mm) + DaysInMonth(y, mm)
  IN DateTime(y, m, ord - DaysBeforeYear(y) - DaysBeforeMonth(y, m),
              (n % 1440) \div 60, n % 60)

-----------------------------------------------------------------------------
(* strptime and strftime with the format "%Y-%m-%d %H:%M" *)

ParseError == [ok |-> FALSE]

\* a one- or two-digit field of strptime with its range
FieldOk(s, lo, hi) ==
  Len(s) \in 1..2 /\ AllDigits(s) /\ ToInt(s) >= lo /\ ToInt(s) <= hi

\* datetime.strptime(s, "%Y-%m-%d %H:%M"): [ok |-> TRUE, dt |-> ...] or ParseError
\* (ValueError).  %Y is four digits; %m, %d, %H, %M are one or two digits; the
\* blank of the format matches one or more whitespace characters; %d may carry
\* one leading blank before a single digit; the day must exist in the month.
Strptime(s) ==
  LET dash == Split(s, "-")
  IN IF Len(dash) # 3 THEN ParseError
     ELSE
       LET Y == dash[1]
           m == dash[2]
           rest == IF Len(dash[3]) >= 2 /\ dash[3][1] = " " /\ IsDigit(dash[3][2])
                      /\ (Len(dash[3]) >= 3 => dash[3][3] \in Whitespace)
                   THEN Tail(dash[3]) ELSE dash[3]
           ws == {i \in 1..Len(rest) : rest[i] \in Whitespace}
       IN IF ws = {} THEN ParseError
          ELSE
            LET w1 == CHOOSE i \in ws : \A j \in ws : i <= j
                w2 == CHOOSE i \in ws : \A j \in ws : j <= i
                d == SubSeq(rest, 1, w1 - 1)
                hm == Split(SubSeq(rest, w2 + 1, Len(rest)), ":")
            IN IF /\ Len(Y) = 4 /\ AllDigits(Y)
                  /\ FieldOk(m, 1, 12)
                  /\ \A i \in w1..w2 : i \in ws
                  /\ FieldOk(d, 1, 31)
                  /\ Len(hm) = 2
                  /\ FieldOk(hm[1], 0, 23)
                  /\ FieldOk(hm[2], 0, 59)
                  /\ ToInt(Y) >= 1
                  /\ ValidDate(ToInt(Y), ToInt(m), ToInt(d))
               THEN [ok |-> TRUE,
                     dt |-> DateTime(ToInt(Y), ToInt(m), ToInt(d), ToInt(hm[1]), ToInt(hm[2]))]
               ELSE ParseError

\* dt.strftime("%Y-%m-%d %H:%M")
Strftime(dt) ==
  Pad4(dt.year) \o <<"-">> \o Pad2(dt.month) \o <<"-">> \o Pad2(dt.day)
    \o <<" ">> \o Pad2(dt.hour) \o <<":">> \o Pad2(dt.minute)

-----------------------------------------------------------------------------
(* reminder_utils.py *)

NoOutcome == [raised |-> FALSE, value |-> <<"(not called)">>]
Returns(v) == [raised |-> FALSE, value |-> v]
Raises(e) == [raised |-> TRUE, value |-> <<e>>]

\* the text returned for an unparsable argument, one element per character
\* of the six-character Chinese message ("time format error")
FormatErrorText == <<"shi2", "jian1", "ge2", "shi4", "cuo4", "wu4">>

\* is_holiday_safe(date_obj) for the date of dt, given the import flag and
\* what chinesecalendar.is_holiday does for that date
LookupFailureMeansWorkday(dt, has_calendar, lib) ==
  IF has_calendar THEN lib = "holiday"
  ELSE Weekday(dt.year, dt.month, dt.day) >= 5
is_holiday_safe(dt, has_calendar, lib) ==
  IF has_calendar /\ lib = "holiday" THEN TRUE
  ELSE IF has_calendar /\ lib = "workday" THEN FALSE
  ELSE Weekday(dt.year, dt.month, dt.day) >= 5

\* (match_hour < 7) or (match_hour == 7 and match_minute == 0)
EarlyExclusiveOfSeven(dt) == dt.hour < 7
EarlyFromOne(dt) == (1 <= dt.hour /\ dt.hour < 7) \/ (dt.hour = 7 /\ dt.minute = 0)
is_early_morning(dt) == dt.hour < 7 \/ (dt.hour = 7 /\ dt.minute = 0)

\* match_time - timedelta(minutes=30)
MinusSixty(dt) == FromMinutes(ToMinutes(dt) - 60)
MinusThirty(dt) == FromMinutes(ToMinutes(dt) - 30)

\* the except ValueError branch
DefaultsToHalfHour(s) == Returns(<<"3", "0">>)
OnValueError(s) == Returns(FormatErrorText)

\* calculate_reminder_time(match_datetime_str)
calculate_reminder_time(s, has_calendar, lib) ==
  LET first == Strptime(s)
  IN IF ~first.ok THEN OnValueError(s)
     ELSE
       LET match_time == first.dt
           reminder_time ==
             IF is_early_morning(match_time)
             THEN IF is_holiday_safe(match_time, has_calendar, lib)
                  THEN [match_time EXCEPT !.hour = 8, !.minute = 0]
                  ELSE [match_time EXCEPT !.hour = 7, !.minute = 0]
             ELSE MinusThirty(match_time)
       IN Returns(Strftime(reminder_time))

\* The arguments the calls of the model are made with
ReminderYears == {2023, 2025}
ReminderMonths == {1, 2, 10, 12}
ReminderDays == {1, 2, 4, 13, 27, 28, 31}
ReminderHours == {0, 3, 6, 7, 8, 12, 19, 23}
ReminderMinutes == {0, 1, 29, 30, 31, 59}

ReminderDateTimes ==
  {DateTime(y, m, d, H, M) :
     y \in ReminderYears, m \in ReminderMonths, d \in ReminderDays,
     H \in ReminderHours, M \in ReminderMinutes}

\* well-formed "YYYY-MM-DD HH:MM" strings, and two without zero padding
WellFormedInputs ==
  {Strftime(dt) : dt \in {x \in ReminderDateTimes : ValidDate(x.year, x.month, x.day)}}
    \cup {<<"2","0","2","3","-","1","0","-","4"," ","3",":","0","0">>,
          <<"2","0","2","5","-","1","2","-","1","3"," ","7",":","0">>}

\* strings that are not of the shape "YYYY-MM-DD HH:MM"
MalformedInputs ==
  {<<>>,
   <<"T","B","C">>,
   <<"2","0","2","3","-","1","0","-","2","7">>,
   <<"2","0","2","3","/","1","0","/","2","7"," ","1","9",":","3","0">>,
   <<"2","0","2","3","-","1","3","-","0","1"," ","1","0",":","0","0">>,
   <<"2","0","2","3","-","0","2","-","3","0"," ","0","3",":","0","0">>,
   <<"2","0","2","3","-","1","0","-","2","7"," ","2","4",":","0","0">>,
   <<"2","0","2","3","-","1","0","-","2","7"," ","1","9",":","6","0">>,
   <<"2","0","2","3","-","1","0","-","2","7"," ","1","9",":","3","0",":","0","0">>,
   <<"2","7","-","1","0","-","2","0","2","3"," ","1","9",":","3","0">>,
   <<"2","0","2","3","-","1","0","-","2","7","1","9",":","3","0">>,
   <<"2","0","2","3","-","1","0","-","2","7"," ","7","p","m">>}

LookupResults == {"holiday", "workday", "raises"}

InitReminder ==
  /\ match_datetime_str \in WellFormedInputs \cup MalformedInputs
  /\ HAS_CHINESE_CALENDAR \in BOOLEAN
  /\ lookup \in LookupResults
  /\ reminder = NoOutcome

IdleReminder ==
  /\ match_datetime_str = <<>>
  /\ HAS_CHINESE_CALENDAR = FALSE
  /\ lookup = "raises"
  /\ reminder = NoOutcome

\* one call of calculate_reminder_time
CalculateReminderTime ==
  /\ reminder = NoOutcome
  /\ reminder' = calculate_reminder_time(match_datetime_str, HAS_CHINESE_CALENDAR, lookup)
  /\ UNCHANGED <<match_datetime_str, HAS_CHINESE_CALENDAR, lookup>>
  /\ UNCHANGED <<normalizeVars, requestVars, parserVars, cycleVars, calendarVars>>

-----------------------------------------------------------------------------
(* core_logic.py: the team catalog and normalize_team_name *)

\* TEAMS, in the order of the dict
TEAMS ==
  << [key  |-> <<"A","r","s","e","n","a","l">>,
      slug |-> <<"a","r","s","e","n","a","l">>],
     [key  |-> <<"M","a","n"," ","C","i","t","y">>,
      slug |-> <<"m","a","n","c","h","e","s","t","e","r","-","c","i","t","y">>],
     [key  |-> <<"L","i","v","e","r","p","o","o","l">>,
      slug |-> <<"l","i","v","e","r","p","o","o","l">>],
     [key  |-> <<"C","h","e","l","s","e","a">>,
      slug |-> <<"c","h","e","l","s","e","a">>],
     [key  |-> <<"R","e","a","l"," ","M","a","d","r","i","d">>,
      slug |-> <<"r","e","a","l","-","m","a","d","r","i","d">>],
     [key  |-> <<"B","a","r","c","e","l","o","n","a">>,
      slug |-> <<"b","a","r","c","e","l","o","n","a">>],
     [key  |-> <<"A","t","l","e","t","i","c","o"," ","M","a","d","r","i","d">>,
      slug |-> <<"a","t","l","e","t","i","c","o","-","m","a","d","r","i","d">>],
     [key  |-> <<"B","a","y","e","r","n"," ","M","u","n","i","c","h">>,
      slug |-> <<"b","a","y","e","r","n","-","m","u","n","i","c","h">>],
     [key  |-> <<"P","S","G">>,
      slug |-> <<"p","a","r","i","s","-","s","a","i","n","t","-","g","e","r","m","a","i","n">>],
     [key  |-> <<"C","h","i","n","a">>,
      slug |-> <<"c","h","i","n","a">>],
     [key  |-> <<"G","e","r","m","a","n","y">>,
      slug |-> <<"g","e","r","m","a","n","y">>],
     [key  |-> <<"F","r","a","n","c","e">>,
      slug |-> <<"f","r","a","n","c","e">>],
     [key  |-> <<"S","p","a","i","n">>,
      slug |-> <<"s","p","a","i","n">>],
     [key  |-> <<"B","r","a","z","i","l">>,
      slug |-> <<"b","r","a","z","i","l">>],
     [key  |-> <<"A","r","g","e","n","t","i","n","a">>,
      slug |-> <<"a","r","g","e","n","t","i","n","a">>],
     [key  |-> <<"P","o","r","t","u","g","a","l">>,
      slug |-> <<"p","o","r","t","u","g","a","l">>],
     [key  |-> <<"E","n","g","l","a","n","d">>,
      slug |-> <<"e","n","g","l","a","n","d">>] >>

TeamKeys == {TEAMS[i].key : i \in 1..Len(TEAMS)}

\* TEAMS.get(team_name, ""): the slug of a catalog key, "" for any other name
SlugOf(team) ==
  IF team \in TeamKeys
  THEN TEAMS[CHOOSE i \in 1..Len(TEAMS) : TEAMS[i].key = team].slug
  ELSE <<>>

\* an alias table whose entry for "spurs" names another alias, not the final name
variations_chained ==
  << [alias |-> <<"m","a","n","c","h","e","s","t","e","r"," ","u","n","i","t","e","d">>,
      name  |-> <<"M","a","n"," ","U","t","d">>],
     [alias |-> <<"m","a","n"," ","u","t","d">>,
      name  |-> <<"M","a","n"," ","U","t","d">>],
     [alias |-> <<"t","o","t","t","e","n","h","a","m">>,
      name  |-> <<"T","o","t","t","e","n","h","a","m"," ","H","o","t","s","p","u","r">>],
     [alias |-> <<"s","p","u","r","s">>,
      name  |-> <<"T","o","t","t","e","n","h","a","m">>],
     [alias |-> <<"w","o","l","v","e","s">>,
      name  |-> <<"W","o","l","v","e","r","h","a","m","p","t","o","n"," ","W","a","n","d","e","r","e","r","s">>],
     [alias |-> <<"b","r","i","g","h","t","o","n">>,
      name  |-> <<"B","r","i","g","h","t","o","n"," ","a","n","d"," ","H","o","v","e"," ","A","l","b","i","o","n">>],
     [alias |-> <<"p","a","r","i","s"," ","s","a","i","n","t"," ","g","e","r","m","a","i","n">>,
      name  |-> <<"P","S","G">>],
     [alias |-> <<"p","a","r","i","s"," ","s","g">>,
      name  |-> <<"P","S","G">>],
     [alias |-> <<"p","a","r","i","s">>,
      name  |-> <<"P","S","G">>] >>

\* the "common variations map" of normalize_team_name
variations ==
  << [alias |-> <<"m","a","n","c","h","e","s","t","e","r"," ","u","n","i","t","e","d">>,
      name  |-> <<"M","a","n"," ","U","t","d">>],
     [alias |-> <<"m","a","n"," ","u","t","d">>,
      name  |-> <<"M","a","n"," ","U","t","d">>],
     [alias |-> <<"t","o","t","t","e","n","h","a","m">>,
      name  |-> <<"T","o","t","t","e","n","h","a","m"," ","H","o","t","s","p","u","r">>],
     [alias |-> <<"s","p","u","r","s">>,
      name  |-> <<"T","o","t","t","e","n","h","a","m"," ","H","o","t","s","p","u","r">>],
     [alias |-> <<"w","o","l","v","e","s">>,
      name  |-> <<"W","o","l","v","e","r","h","a","m","p","t","o","n"," ","W","a","n","d","e","r","e","r","s">>],
     [alias |-> <<"b","r","i","g","h","t","o","n">>,
      name  |-> <<"B","r","i","g","h","t","o","n"," ","a","n","d"," ","H","o","v","e"," ","A","l","b","i","o","n">>],
     [alias |-> <<"p","a","r","i","s"," ","s","a","i","n","t"," ","g","e","r","m","a","i","n">>,
      name  |-> <<"P","S","G">>],
     [alias |-> <<"p","a","r","i","s"," ","s","g">>,
      name  |-> <<"P","S","G">>],
     [alias |-> <<"p","a","r","i","s">>,
      name  |-> <<"P","S","G">>] >>

\* the first index at which a loop over a sequence finds its test true (hits
\* holds the outcome of the test per index), 0 when it finds none
FirstIndex(hits) ==
  IF \E i \in DOMAIN hits : hits[i]
  THEN CHOOSE i \in DOMAIN hits : hits[i] /\ \A j \in 1..(i - 1) : ~hits[j]
  ELSE 0

\* key.lower() of every catalog key, and slug.replace('-', ' ') of every slug
LowerKeys == [i \in 1..Len(TEAMS) |-> Lower(TEAMS[i].key)]
SpacedSlugs == [i \in 1..Len(TEAMS) |-> Replace(TEAMS[i].slug, "-", " ")]

\* normalize_team_name(name)
normalize_team_name(name) ==
  IF name = <<>> THEN Returns(name)
  ELSE IF name \in TeamKeys THEN Returns(name)
  ELSE
    LET name_lower == Strip(Lower(name))
        KeyMatch(i) == LowerKeys[i] = name_lower
        SlugMatch(i) == \/ name_lower = SpacedSlugs[i]
                        \/ name_lower = TEAMS[i].slug
        AliasMatch(i) == variations[i].alias = name_lower
        k == FirstIndex([i \in 1..Len(TEAMS) |-> KeyMatch(i)])
        g == FirstIndex([i \in 1..Len(TEAMS) |-> SlugMatch(i)])
        a == FirstIndex([i \in 1..Len(variations) |-> AliasMatch(i)])
    IN IF k # 0 THEN Returns(TEAMS[k].key)
       ELSE IF g # 0 THEN Returns(TEAMS[g].key)
       ELSE IF a # 0 THEN Returns(variations[a].name)
       ELSE Returns(name)

\* str.upper()
Upper(s) ==
  [i \in 1..Len(s) |->
     IF \E j \in 1..26 : LowerCase[j] = s[i]
     THEN UpperCase[CHOOSE j \in 1..26 : LowerCase[j] = s[i]] ELSE s[i]]

\* the longest string of FreeAlphabet tried as an argument
MaxFreeLen == 2
FreeAlphabet == {"a", "P", " ", "-"}
FreeStrings == UNION {[1..n -> FreeAlphabet] : n \in 0..MaxFreeLen}

\* names as the source site spells them, and names of no catalog team
SiteFullNames ==
  {<<"P","a","r","i","s"," ","S","a","i","n","t","-","G","e","r","m","a","i","n">>,
   <<"M","a","n","c","h","e","s","t","e","r"," ","C","i","t","y">>,
   <<"M","a","n","c","h","e","s","t","e","r"," ","U","n","i","t","e","d">>,
   <<"A","t","l","e","t","i","c","o"," ","M","a","d","r","i","d">>}
Unrecognised ==
  {<<"E","v","e","r","t","o","n">>,
   <<" ","E","v","e","r","t","o","n"," ">>,
   <<"T","o","t","t","e","n","h","a","m"," ","H","o","t","s","p","u","r">>,
   <<"M","a","n">>,
   <<"A","r","s","e","n","a","l"," ","v","s"," ","C","h","e","l","s","e","a">>}

\* every spelling of a recognised name: as is, lower case, upper case, padded
Spellings(s) == {s, Lower(s), Upper(s), <<" ">> \o s \o <<" ">>, Lower(s) \o <<" ">>}

NameInputs ==
  UNION {Spellings(TEAMS[i].key) \cup Spellings(TEAMS[i].slug)
           \cup Spellings(Replace(TEAMS[i].slug, "-", " ")) : i \in 1..Len(TEAMS)}
    \cup UNION {Spellings(variations[i].alias) \cup Spellings(variations[i].name)
                  : i \in 1..Len(variations)}
    \cup SiteFullNames \cup Unrecognised \cup FreeStrings

InitNormalize ==
  /\ name_in \in NameInputs
  /\ norm_once = NoOutcome
  /\ norm_twice = NoOutcome

IdleNormalize ==
  /\ name_in = <<>>
  /\ norm_once = NoOutcome
  /\ norm_twice = NoOutcome

\* normalize_team_name(name_in)
NormalizeOnce ==
  /\ norm_once = NoOutcome
  /\ norm_once' = normalize_team_name(name_in)
  /\ UNCHANGED <<name_in, norm_twice>>
  /\ UNCHANGED <<reminderVars, requestVars, parserVars, cycleVars, calendarVars>>

\* normalize_team_name applied to what the first call returned
NormalizeTwice ==
  /\ norm_once # NoOutcome
  /\ ~norm_once.raised
  /\ norm_twice = NoOutcome
  /\ norm_twice' = normalize_team_name(norm_once.value)
  /\ UNCHANGED <<name_in, norm_once>>
  /\ UNCHANGED <<reminderVars, requestVars, parserVars, cycleVars, calendarVars>>

-----------------------------------------------------------------------------
(* core_logic.py: parse_fixtures *)

\* calendar.month_name, which %B matches without regard to letter case
MonthNames ==
  <<<<"J","a","n","u","a","r","y">>,
    <<"F","e","b","r","u","a","r","y">>,
    <<"M","a","r","c","h">>,
    <<"A","p","r","i","l">>,
    <<"M","a","y">>,
    <<"J","u","n","e">>,
    <<"J","u","l","y">>,
    <<"A","u","g","u","s","t">>,
    <<"S","e","p","t","e","m","b","e","r">>,
    <<"O","c","t","o","b","e","r">>,
    <<"N","o","v","e","m","b","e","r">>,
    <<"D","e","c","e","m","b","e","r">>>>

\* UK civil time (Europe/London in the tz database that pytz carries): British
\* Summer Time, UTC+1, from 01:00 UTC on the last Sunday of March to 01:00 UTC
\* on the last Sunday of October; UTC+0 otherwise.  Instants are in minutes.
LastSunday(y, m) ==
  CHOOSE d \in 1..DaysInMonth(y, m) :
    Weekday(y, m, d) = 6 /\ \A e \in (d + 1)..DaysInMonth(y, m) : Weekday(y, m, e) # 6
BSTStart(y) == ToMinutes(DateTime(y, 3, LastSunday(y, 3), 1, 0))
BSTEnd(y) == ToMinutes(DateTime(y, 10, LastSunday(y, 10), 1, 0))
UKOffsetAt(u) ==
  LET y == FromMinutes(u).year
  IN IF BSTStart(y) <= u /\ u < BSTEnd(y) THEN 60 ELSE 0

\* uk_tz.localize(dt).astimezone(pytz.UTC) with a fixed offset of zero
LocalizeFixedOffset(dt) == ToMinutes(dt)
\* uk_tz.localize(dt).astimezone(pytz.UTC), in minutes.  localize (is_dst=False)
\* keeps the offsets under which the wall time dt exists; with one it takes it;
\* with two (the hour repeated in October) it takes the one that is not
\* summer time; with none (the hour skipped in March) it takes the offset in
\* force six hours earlier.
LocalizeToUTC(dt) ==
  LET wall == ToMinutes(dt)
      possible == {off \in {0, 60} : UKOffsetAt(wall - off) = off}
  IN IF Cardinality(possible) = 1 THEN wall - (CHOOSE off \in possible : TRUE)
     ELSE IF possible = {} THEN wall - UKOffsetAt(wall - 6 * 60)
     ELSE wall

\* minutes on the datetime scale at 1970-01-01 00:00, and the POSIX timestamp
\* (seconds) of an instant given in minutes
EpochMinutes == ToMinutes(DateTime(1970, 1, 1, 0, 0))
Timestamp(u) == (u - EpochMinutes) * 60

\* re.sub(r'(st|nd|rd|th)', '', day_str)
RECURSIVE StripOrdinal(_)
StripOrdinal(s) ==
  IF s = <<>> THEN <<>>
  ELSE IF Len(s) >= 2 /\ SubSeq(s, 1, 2) \in {<<"s","t">>, <<"n","d">>, <<"r","d">>, <<"t","h">>}
       THEN StripOrdinal(SubSeq(s, 3, Len(s)))
  ELSE <<Head(s)>> \o StripOrdinal(Tail(s))

\* datetime.strptime(f"{year} {day} {month_str} {time_str}", "%Y %d %B %H:%M")
StrptimeDayMonth(year, day, month_str, time_str) ==
  LET hm == Split(time_str, ":")
      month == {m \in 1..12 : Lower(MonthNames[m]) = Lower(month_str)}
  IN IF /\ FieldOk(day, 1, 31)
        /\ month # {}
        /\ Len(hm) = 2
        /\ FieldOk(hm[1], 0, 23)
        /\ FieldOk(hm[2], 0, 59)
        /\ ValidDate(year, CHOOSE m \in month : TRUE, ToInt(day))
     THEN [ok |-> TRUE,
           dt |-> DateTime(year, CHOOSE m \in month : TRUE, ToInt(day),
                           ToInt(hm[1]), ToInt(hm[2]))]
     ELSE ParseError

\* (a - b).days: the whole days of a timedelta, rounded down
DeltaDays(a, b) == (ToMinutes(a) - ToMinutes(b)) \div 1440

\* the year dt is moved to (lines 148 to 152), never moving it
KeepsCurrentYear(dt, now) == dt.year
ResolveYear(dt, now) ==
  IF DeltaDays(now, dt) > 180 THEN now.year + 1
  ELSE IF DeltaDays(dt, now) > 180 THEN now.year - 1
  ELSE dt.year

\* a field a data-state object does not have
Absent == <<"(absent)">>
Truthy(x) == x # Absent /\ x # <<>>

\* the sides of a record: lines 163 to 198 (AwaySideFirst: the away side is
\* tried before the home side)
AwaySideFirst(home_team, away_team, team) ==
  LET slug == SlugOf(team)
      slug_norm == Replace(slug, "-", " ")
      home_team_norm == Replace(Lower(home_team), "-", " ")
      away_team_norm == Replace(Lower(away_team), "-", " ")
      team_name_lower == Lower(team)
      match_home == \/ Contains(home_team_norm, team_name_lower)
                    \/ slug # <<>> /\ Contains(home_team_norm, slug)
                    \/ slug_norm # <<>> /\ Contains(home_team_norm, slug_norm)
      match_away == \/ Contains(away_team_norm, team_name_lower)
                    \/ slug # <<>> /\ Contains(away_team_norm, slug)
                    \/ slug_norm # <<>> /\ Contains(away_team_norm, slug_norm)
  IN IF match_away THEN [opponent |-> home_team, is_home |-> FALSE]
     ELSE IF match_home THEN [opponent |-> away_team, is_home |-> TRUE]
     ELSE [opponent |-> home_team \o <<" ","v","s"," ">> \o away_team, is_home |-> TRUE]
ResolveSide(home_team, away_team, team) ==
  LET slug == SlugOf(team)
      slug_norm == Replace(slug, "-", " ")
      home_team_norm == Replace(Lower(home_team), "-", " ")
      away_team_norm == Replace(Lower(away_team), "-", " ")
      team_name_lower == Lower(team)
      match_home == \/ Contains(home_team_norm, team_name_lower)
                    \/ slug # <<>> /\ Contains(home_team_norm, slug)
                    \/ slug_norm # <<>> /\ Contains(home_team_norm, slug_norm)
      match_away == \/ Contains(away_team_norm, team_name_lower)
                    \/ slug # <<>> /\ Contains(away_team_norm, slug)
                    \/ slug_norm # <<>> /\ Contains(away_team_norm, slug_norm)
  IN IF match_home THEN [opponent |-> away_team, is_home |-> TRUE]
     ELSE IF match_away THEN [opponent |-> home_team, is_home |-> FALSE]
     ELSE [opponent |-> home_team \o <<" ","v","s"," ">> \o away_team, is_home |-> TRUE]

Skip == [ok |-> FALSE]

\* the body of the loop of parse_fixtures for one data-state element: the
\* fixture it appends, or Skip when it continues (also from the except)
ParseElement(el, team, now) ==
  IF el.kind # "match" THEN Skip
  ELSE IF ~Truthy(el.date) \/ ~Truthy(el.time) THEN Skip
  ELSE
    LET parts == Split(el.date, " ")
    IN IF Len(parts) < 3 THEN Skip
       ELSE
         LET day == StripOrdinal(parts[2])
             first == StrptimeDayMonth(now.year, day, parts[3], el.time)
         IN IF ~first.ok THEN Skip
            ELSE
              LET year == ResolveYear(first.dt, now)
              IN IF ~ValidDate(year, first.dt.month, first.dt.day) THEN Skip
                 ELSE IF el.home = Absent \/ el.away = Absent THEN Skip
                 ELSE
                   LET dt == [first.dt EXCEPT !.year = year]
                       side == ResolveSide(el.home, el.away, team)
                   IN [ok |-> TRUE,
                       fixture |->
                         [datetime_utc |-> Timestamp(LocalizeToUTC(dt)),
                          opponent |-> side.opponent,
                          competition |-> IF el.competition = Absent
                                          THEN <<"U","n","k","n","o","w","n">>
                                          ELSE el.competition,
                          team |-> team,
                          is_home |-> side.is_home]]

\* what fetch_fixtures returns: None, or the text of a page, of which the
\* model keeps the data-state elements in document order
NoPage == [text |-> FALSE, elements |-> <<>>]
Page(els) == [text |-> TRUE, elements |-> els]

\* parse_fixtures(html, team_name) (StopAtFirstSkip: the loop ends at the
\* first element it cannot use)
RECURSIVE StopAtFirstSkip(_, _, _)
StopAtFirstSkip(els, team, now) ==
  IF els = <<>> THEN <<>>
  ELSE LET r == ParseElement(Head(els), team, now)
       IN IF r.ok THEN <<r.fixture>> \o StopAtFirstSkip(Tail(els), team, now) ELSE <<>>
RECURSIVE ParseElements(_, _, _)
ParseElements(els, team, now) ==
  IF els = <<>> THEN <<>>
  ELSE LET r == ParseElement(Head(els), team, now)
       IN (IF r.ok THEN <<r.fixture>> ELSE <<>>) \o ParseElements(Tail(els), team, now)
parse_fixtures(page, team, now) ==
  IF ~page.text THEN <<>> ELSE ParseElements(page.elements, team, now)

NotParsed == [returned |-> FALSE, fixtures |-> <<>>]

\* one call of parse_fixtures
ParseFixtures ==
  /\ parsed = NotParsed
  /\ parsed' = [returned |-> TRUE, fixtures |-> parse_fixtures(html, team_name, parse_now)]
  /\ UNCHANGED <<html, team_name, parse_now>>
  /\ UNCHANGED <<reminderVars, normalizeVars, requestVars, cycleVars, calendarVars>>

IdleParser ==
  /\ html = NoPage
  /\ team_name = <<>>
  /\ parse_now = DateTime(1970, 1, 1, 0, 0)
  /\ parsed = NotParsed

\* a match object of the page
MatchElement(date, time, home, away, competition) ==
  [kind |-> "match", date |-> date, time |-> time, home |-> home, away |-> away,
   competition |-> competition]

\* The pages of one record each that the date resolution is run on: every
\* sampled day of every month at every sampled time, read at every sampled now
SampleDays ==
  {<<"1","s","t">>, <<"2","n","d">>, <<"2","5","t","h">>, <<"2","6","t","h">>, <<"2","7","t","h">>,
   <<"2","9","t","h">>, <<"3","0","t","h">>, <<"3","1","s","t">>}
SampleTimes ==
  {<<"0","0",":","3","0">>, <<"0","1",":","0","0">>, <<"0","1",":","3","0">>,
   <<"0","1",":","5","9">>, <<"0","2",":","0","0">>, <<"1","2",":","0","0">>,
   <<"T","B","C">>}
SampleNows ==
  {DateTime(2025, 6, 30, 12, 0), DateTime(2025, 6, 30, 18, 0), DateTime(2025, 7, 1, 12, 0),
   DateTime(2025, 7, 4, 12, 0), DateTime(2025, 7, 4, 6, 0), DateTime(2025, 7, 3, 12, 0),
   DateTime(2025, 12, 15, 9, 0), DateTime(2024, 12, 15, 9, 0), DateTime(2024, 2, 10, 9, 0)}

InitDates ==
  /\ \E d \in SampleDays, m \in 1..12, tm \in SampleTimes :
       html = Page(<<MatchElement(<<"S","u","n","d","a","y">> \o <<" ">> \o d \o <<" ">> \o MonthNames[m],
                             tm, <<"A","r","s","e","n","a","l">>,
                             <<"C","h","e","l","s","e","a">>,
                             <<"P","r","e","m","i","e","r"," ","L","e","a","g","u","e">>)>>)
  /\ team_name = <<"A","r","s","e","n","a","l">>
  /\ parse_now \in SampleNows
  /\ parsed = NotParsed

\* a data-state element that is no match object: its attribute is not JSON
\* (json.loads raises), or decodes to something without 'start' and 'teams'
OtherElement(kind) ==
  [kind |-> kind, date |-> Absent, time |-> Absent, home |-> Absent, away |-> Absent,
   competition |-> Absent]

\* The pages of several elements that the parser is run on for Arsenal: two
\* match objects it can use, the later one first, and elements it cannot use
UsableElements ==
  {MatchElement(<<"W","e","d","n","e","s","d","a","y"," ","5","t","h"," ","N","o","v","e","m","b","e","r">>, <<"2","0",":","0","0">>,
                <<"A","r","s","e","n","a","l">>, <<"C","h","e","l","s","e","a">>, <<"P","r","e","m","i","e","r"," ","L","e","a","g","u","e">>),
   MatchElement(<<"T","u","e","s","d","a","y"," ","4","t","h"," ","N","o","v","e","m","b","e","r">>, <<"1","9",":","4","5">>,
                <<"L","i","v","e","r","p","o","o","l">>, <<"A","r","s","e","n","a","l">>, Absent)}
UnusableElements ==
  {OtherElement("undecodable"), OtherElement("other"),
   MatchElement(Absent, <<"2","0",":","0","0">>, <<"A","r","s","e","n","a","l">>, <<"C","h","e","l","s","e","a">>, Absent),
   MatchElement(<<"W","e","d","n","e","s","d","a","y"," ","5","t","h"," ","N","o","v","e","m","b","e","r">>, Absent, <<"A","r","s","e","n","a","l">>, <<"C","h","e","l","s","e","a">>, Absent),
   MatchElement(<<"W","e","d","n","e","s","d","a","y"," ","5","t","h"," ","N","o","v","e","m","b","e","r">>, <<"T","B","C">>, <<"A","r","s","e","n","a","l">>, <<"C","h","e","l","s","e","a">>, Absent),
   MatchElement(<<"W","e","d","n","e","s","d","a","y"," ","5","t","h"," ","N","o","v","e","m","b","e","r">>, <<"2","5",":","0","0">>, <<"A","r","s","e","n","a","l">>, <<"C","h","e","l","s","e","a">>, Absent),
   MatchElement(<<"W","e","d","n","e","s","d","a","y"," ","5","t","h"," ","N","o","v","e","m","b","e","r">>, <<"2","0",":","0","0">>, Absent, Absent, Absent)}
MaxElements == 3
SamplePages ==
  {NoPage} \cup {Page(els) : els \in UNION {[1..n -> UsableElements \cup UnusableElements]
                                              : n \in 0..MaxElements}}

InitPages ==
  /\ html \in SamplePages
  /\ team_name = <<"A","r","s","e","n","a","l">>
  /\ parse_now = DateTime(2025, 11, 3, 12, 0)
  /\ parsed = NotParsed

\* The pages of one record each that the side resolution is run on: every
\* pair of sampled full names, on the page of every catalog team and of three
\* names outside the catalog
SideNames ==
  {<<"A","r","s","e","n","a","l">>, <<"A","R","S","E","N","A","L">>, <<"A","r","s","e","n","a","l"," ","W","o","m","e","n">>,
   <<"M","a","n","c","h","e","s","t","e","r"," ","C","i","t","y">>, <<"M","a","n","-","C","i","t","y">>,
   <<"P","a","r","i","s"," ","S","a","i","n","t","-","G","e","r","m","a","i","n">>, <<"R","e","a","l"," ","M","a","d","r","i","d">>,
   <<"A","t","l","e","t","i","c","o"," ","M","a","d","r","i","d">>, <<"C","h","e","l","s","e","a">>,
   <<"C","h","i","n","a"," ","P","R">>, <<>>}
SideTeams == TeamKeys \cup {<<"E","v","e","r","t","o","n">>, <<"M","a","d","r","i","d">>, <<>>}

InitSides ==
  /\ \E home \in SideNames, away \in SideNames :
       html = Page(<<MatchElement(<<"W","e","d","n","e","s","d","a","y"," ","5","t","h"," ","N","o","v","e","m","b","e","r">>,
                             <<"2","0",":","0","0">>, home, away,
                             <<"P","r","e","m","i","e","r"," ","L","e","a","g","u","e">>)>>)
  /\ team_name \in SideTeams
  /\ parse_now = DateTime(2025, 11, 3, 12, 0)
  /\ parsed = NotParsed

-----------------------------------------------------------------------------
(* core_logic.py: get_formatted_fixtures from line 260 on: filter,         *)
(* deduplicate, sort.  A fixture is the dict parse_fixtures appends;       *)
(* datetime_utc is an absolute instant counted in seconds.                 *)

SecondsPerDay == 86400
WindowDays == 7

Fixture(t, team, opponent, is_home) ==
  [datetime_utc |-> t, opponent |-> opponent, competition |-> <<"P","r","e","m","i","e","r"," ","L","e","a","g","u","e">>,
   team |-> team, is_home |-> is_home]

\* the order of characters (code points) that str comparison uses
CharOrder ==
  <<"\n", "\t", " ", "-">> \o Digits \o UpperCase \o LowerCase
Code(c) == CHOOSE i \in 1..Len(CharOrder) : CharOrder[i] = c

\* a < b for strings, as sorted() compares them
StrLess(a, b) ==
  \E k \in 1..(Len(b)) :
    /\ \A i \in 1..(k - 1) : i <= Len(a) /\ a[i] = b[i]
    /\ \/ Len(a) = k - 1
       \/ Len(a) >= k /\ Code(a[k]) < Code(b[k])

\* tuple(sorted([a, b]))
SortedPair(a, b) == IF StrLess(b, a) THEN <<b, a>> ELSE <<a, b>>

\* now <= f['datetime_utc'] <= end_date
UpperBoundExclusive(f, now) ==
  now <= f.datetime_utc /\ f.datetime_utc < now + WindowDays * SecondsPerDay
InWindow(f, now) ==
  now <= f.datetime_utc /\ f.datetime_utc <= now + WindowDays * SecondsPerDay

\* the key of the deduplication loop
DedupKey(f) ==
  <<f.datetime_utc,
    SortedPair(normalize_team_name(f.team).value,
               normalize_team_name(f.opponent).value)>>

\* the deduplication loop: the first fixture of each key is kept
RECURSIVE Deduplicate(_, _)
Deduplicate(fs, seen) ==
  IF fs = <<>> THEN <<>>
  ELSE IF DedupKey(Head(fs)) \in seen THEN Deduplicate(Tail(fs), seen)
  ELSE <<Head(fs)>> \o Deduplicate(Tail(fs), seen \cup {DedupKey(Head(fs))})

\* where list.sort puts one more element: after every element that is not
\* later than it (InsertUnstable: before the elements of the same instant)
InsertUnstable(sorted, f) ==
  LET n == Cardinality({i \in 1..Len(sorted) : sorted[i].datetime_utc < f.datetime_utc})
  IN SubSeq(sorted, 1, n) \o <<f>> \o SubSeq(sorted, n + 1, Len(sorted))
InsertSorted(sorted, f) ==
  LET n == Cardinality({i \in 1..Len(sorted) : sorted[i].datetime_utc <= f.datetime_utc})
  IN SubSeq(sorted, 1, n) \o <<f>> \o SubSeq(sorted, n + 1, Len(sorted))

\* upcoming.sort(key=lambda x: x['datetime_utc']): a stable sort
RECURSIVE SortByInstant(_)
SortByInstant(fs) ==
  IF fs = <<>> THEN <<>>
  ELSE InsertSorted(SortByInstant(SubSeq(fs, 1, Len(fs) - 1)), fs[Len(fs)])

\* lines 260 to 290; the loop of lines 386 to 413 then turns each entry into
\* one display record, in the same order (UpcomingUnsorted: without the sort
\* of line 290)
UpcomingUnsorted(fixtures, now) ==
  IF fixtures = <<>> THEN <<>>
  ELSE
    LET InWin(f) == InWindow(f, now)
    IN Deduplicate(SelectSeq(fixtures, InWin), {})
Upcoming(fixtures, now) ==
  IF fixtures = <<>> THEN <<>>
  ELSE
    LET InWin(f) == InWindow(f, now)
    IN SortByInstant(Deduplicate(SelectSeq(fixtures, InWin), {}))

\* the rest of get_formatted_fixtures once the fixtures are gathered
Aggregate ==
  /\ pc = "aggregate"
  /\ results' = Upcoming(all_fixtures, now_utc)
  /\ pc' = "done"
  /\ UNCHANGED <<all_fixtures, now_utc, task, future, early, waiter, collected>>
  /\ UNCHANGED <<reminderVars, normalizeVars, parserVars, cycleVars, calendarVars>>

\* The lists the aggregation is run on
MaxFixtures == 3
SampleNow == 10 * SecondsPerDay
SampleInstants ==
  {SampleNow - 1, SampleNow, SampleNow + WindowDays * SecondsPerDay,
   SampleNow + WindowDays * SecondsPerDay + 1}
\* one match seen from both teams' pages, with the opponent spelled as the
\* source site spells it
SampleSides ==
  {<<<<"A","r","s","e","n","a","l">>, <<"P","a","r","i","s"," ","S","a","i","n","t","-","G","e","r","m","a","i","n">>, TRUE>>,
   <<<<"P","S","G">>, <<"A","r","s","e","n","a","l">>, FALSE>>,
   <<<<"A","r","s","e","n","a","l">>, <<"M","a","n","c","h","e","s","t","e","r"," ","C","i","t","y">>, FALSE>>,
   <<<<"M","a","n"," ","C","i","t","y">>, <<"A","r","s","e","n","a","l">>, TRUE>>}
SampleFixtures ==
  {Fixture(t, sd[1], sd[2], sd[3]) : t \in SampleInstants, sd \in SampleSides}

InitAggregate ==
  /\ task = <<>> /\ future = <<>> /\ early = {} /\ waiter = <<>> /\ collected = {}
  /\ pc = "aggregate"
  /\ all_fixtures \in UNION {[1..n -> SampleFixtures] : n \in 0..MaxFixtures}
  /\ now_utc = SampleNow
  /\ results = <<>>

IdleRequest ==
  /\ task = <<>> /\ future = <<>> /\ early = {} /\ waiter = <<>> /\ collected = {}
  /\ pc = "idle"
  /\ all_fixtures = <<>>
  /\ now_utc = 0
  /\ results = <<>>

-----------------------------------------------------------------------------
(* core_logic.py: fetch_fixtures, get_team_fixtures and the "All" branch of *)
(* get_formatted_fixtures                                                   *)

\* the naive now of the request (datetime.now()), and the pages the source
\* site serves at that time: per team the page of the current month and the
\* page of the next month
RequestNow == DateTime(2025, 11, 3, 12, 0)

CurrentMonthPage(team) ==
  IF team = <<"A","r","s","e","n","a","l">>
  THEN Page(<<MatchElement(<<"W","e","d","n","e","s","d","a","y"," ","5","t","h"," ","N","o","v","e","m","b","e","r">>,
                   <<"2","0",":","0","0">>,
                   <<"A","r","s","e","n","a","l">>,
                   <<"M","a","n","c","h","e","s","t","e","r"," ","C","i","t","y">>,
                   <<"P","r","e","m","i","e","r"," ","L","e","a","g","u","e">>)>>)
  ELSE IF team = <<"M","a","n"," ","C","i","t","y">>
  THEN Page(<<MatchElement(<<"W","e","d","n","e","s","d","a","y"," ","5","t","h"," ","N","o","v","e","m","b","e","r">>,
                   <<"2","0",":","0","0">>,
                   <<"A","r","s","e","n","a","l">>,
                   <<"M","a","n","c","h","e","s","t","e","r"," ","C","i","t","y">>,
                   <<"P","r","e","m","i","e","r"," ","L","e","a","g","u","e">>)>>)
  ELSE IF team = <<"L","i","v","e","r","p","o","o","l">>
  THEN Page(<<MatchElement(<<"T","u","e","s","d","a","y"," ","4","t","h"," ","N","o","v","e","m","b","e","r">>,
                   <<"1","9",":","4","5">>,
                   <<"L","i","v","e","r","p","o","o","l">>,
                   <<"E","v","e","r","t","o","n">>,
                   <<"P","r","e","m","i","e","r"," ","L","e","a","g","u","e">>)>>)
  ELSE IF team = <<"C","h","e","l","s","e","a">>
  THEN Page(<<MatchElement(<<"W","e","d","n","e","s","d","a","y"," ","5","t","h"," ","N","o","v","e","m","b","e","r">>,
                   <<"2","0",":","0","0">>,
                   <<"C","h","e","l","s","e","a">>,
                   <<"F","u","l","h","a","m">>,
                   <<"C","a","r","a","b","a","o"," ","C","u","p">>)>>)
  ELSE IF team = <<"R","e","a","l"," ","M","a","d","r","i","d">>
  THEN Page(<<>>)
  ELSE IF team = <<"B","a","r","c","e","l","o","n","a">>
  THEN Page(<<MatchElement(<<"S","u","n","d","a","y"," ","9","t","h"," ","N","o","v","e","m","b","e","r">>,
                   <<"2","0",":","0","0">>,
                   <<"R","e","a","l"," ","M","a","d","r","i","d">>,
                   <<"B","a","r","c","e","l","o","n","a">>,
                   <<"S","p","a","n","i","s","h"," ","L","a"," ","L","i","g","a">>)>>)
  ELSE IF team = <<"A","t","l","e","t","i","c","o"," ","M","a","d","r","i","d">>
  THEN Page(<<MatchElement(<<"M","o","n","d","a","y"," ","1","0","t","h"," ","N","o","v","e","m","b","e","r">>,
                   <<"1","2",":","0","0">>,
                   <<"A","t","l","e","t","i","c","o"," ","M","a","d","r","i","d">>,
                   <<"S","e","v","i","l","l","a">>,
                   <<"S","p","a","n","i","s","h"," ","L","a"," ","L","i","g","a">>)>>)
  ELSE Page(<<>>)

NextMonthPage(team) ==
  IF team = <<"A","r","s","e","n","a","l">>
  THEN Page(<<MatchElement(<<"S","a","t","u","r","d","a","y"," ","6","t","h"," ","D","e","c","e","m","b","e","r">>,
                   <<"1","5",":","0","0">>,
                   <<"A","r","s","e","n","a","l">>,
                   <<"L","i","v","e","r","p","o","o","l">>,
                   <<"P","r","e","m","i","e","r"," ","L","e","a","g","u","e">>)>>)
  ELSE Page(<<>>)

\* fetch_fixtures(slug, date_str): the page when the retrieval succeeds with
\* status 200; None on any other status and on any exception
fetch_fixtures(team, next_month, succeeds) ==
  IF ~succeeds THEN NoPage
  ELSE IF next_month THEN NextMonthPage(team) ELSE CurrentMonthPage(team)

\* get_team_fixtures(team_name), given how its two retrievals go
get_team_fixtures(team, first_ok, second_ok) ==
  IF SlugOf(team) = <<>> THEN <<>>
  ELSE parse_fixtures(fetch_fixtures(team, FALSE, first_ok), team, RequestNow)
         \o parse_fixtures(fetch_fixtures(team, TRUE, second_ok), team, RequestNow)

\* the number of catalog teams, from the top of TEAMS, that a request covers
MaxTeams == 6

\* ThreadPoolExecutor(max_workers=5); WorkerPerTask: a pool as large as the
\* number of tasks
WorkerPerTask == MaxTeams
max_workers == 5
Teams == 1..MaxTeams

\* the teams whose retrievals or task may fail in the model
FlakyTeams == {<<"A","r","s","e","n","a","l">>}

\* what get_team_fixtures returns for each team and each way its two
\* retrievals can go
TeamFixtures ==
  [i \in Teams |->
     [first_ok \in BOOLEAN |->
        [second_ok \in BOOLEAN |-> get_team_fixtures(TEAMS[i].key, first_ok, second_ok)]]]

\* how a task of a team can end: returning after two retrievals, each of
\* which succeeds or fails, or raising
TaskEndings(i) ==
  IF TEAMS[i].key \in FlakyTeams
  THEN {[raised |-> FALSE, first_ok |-> x, second_ok |-> y] : x \in BOOLEAN, y \in BOOLEAN}
         \cup {[raised |-> TRUE, first_ok |-> FALSE, second_ok |-> FALSE]}
  ELSE {[raised |-> FALSE, first_ok |-> TRUE, second_ok |-> TRUE]}

\* a future that is not done yet
NoFuture == [raised |-> FALSE, first_ok |-> FALSE, second_ok |-> FALSE]

\* future.result() of the finished task of team i: the list that
\* get_team_fixtures returned
Result(i, fut) == TeamFixtures[i][fut.first_ok][fut.second_ok]

\* the except clause of the as_completed loop letting the exception through
CollectOrAbort(i, fut, gathered) ==
  IF fut.raised THEN [pc |-> "raised", all_fixtures |-> gathered]
  ELSE [pc |-> "as_completed", all_fixtures |-> gathered \o Result(i, fut)]
\* the body of the as_completed loop for one future: lines 252 to 256
CollectFuture(i, fut, gathered) ==
  IF fut.raised THEN [pc |-> "as_completed", all_fixtures |-> gathered]
  ELSE [pc |-> "as_completed", all_fixtures |-> gathered \o Result(i, fut)]

InitAll ==
  /\ pc = "submit"
  /\ all_fixtures = <<>>
  /\ now_utc = 0
  /\ results = <<>>
  /\ task = [i \in Teams |-> "new"]
  /\ future = [i \in Teams |-> NoFuture]
  /\ early = {}
  /\ waiter = <<>>
  /\ collected = {}

\* the dict comprehension of line 250: executor.submit(get_team_fixtures,
\* name) for every key of TEAMS, in order
Submit ==
  /\ pc = "submit"
  /\ \A i \in Teams : task[i] = "new"
  /\ task' = [i \in Teams |-> "queued"]
  /\ UNCHANGED <<pc, all_fixtures, now_utc, results, future, early, waiter, collected>>
  /\ UNCHANGED <<reminderVars, normalizeVars, parserVars, cycleVars, calendarVars>>

\* as_completed(future_to_team) is entered: the futures already done are
\* noted, the others will be queued on the waiter as they finish
AsCompleted ==
  /\ pc = "submit"
  /\ \A i \in Teams : task[i] # "new"
  /\ pc' = "as_completed"
  /\ early' = {i \in Teams : task[i] = "finished"}
  /\ UNCHANGED <<all_fixtures, now_utc, results, task, future, waiter, collected>>
  /\ UNCHANGED <<reminderVars, normalizeVars, parserVars, cycleVars, calendarVars>>

\* a worker thread takes the oldest queued work item (StartOnce: a worker
\* thread ends with its first work item instead of taking the next one)
StartOnce(i) ==
  /\ task[i] = "queued"
  /\ \A j \in 1..(i - 1) : task[j] # "queued"
  /\ Cardinality({j \in Teams : task[j] \in {"running", "finished"}}) < max_workers
  /\ task' = [task EXCEPT ![i] = "running"]
  /\ UNCHANGED <<pc, all_fixtures, now_utc, results, future, early, waiter, collected>>
  /\ UNCHANGED <<reminderVars, normalizeVars, parserVars, cycleVars, calendarVars>>
Start(i) ==
  /\ task[i] = "queued"
  /\ \A j \in 1..(i - 1) : task[j] # "queued"
  /\ Cardinality({j \in Teams : task[j] = "running"}) < max_workers
  /\ task' = [task EXCEPT ![i] = "running"]
  /\ UNCHANGED <<pc, all_fixtures, now_utc, results, future, early, waiter, collected>>
  /\ UNCHANGED <<reminderVars, normalizeVars, parserVars, cycleVars, calendarVars>>

\* get_team_fixtures of a running task returns or raises; the future is
\* set, and the waiter of as_completed, once installed, is told
\* (FinishIntoShared: the worker itself extends the gathered list)
FinishIntoShared(i) ==
  /\ task[i] = "running"
  /\ \E ending \in TaskEndings(i) :
       /\ future' = [future EXCEPT ![i] = ending]
       /\ all_fixtures' = IF ending.raised THEN all_fixtures
                          ELSE all_fixtures \o Result(i, ending)
  /\ task' = [task EXCEPT ![i] = "finished"]
  /\ waiter' = IF pc = "as_completed" THEN Append(waiter, i) ELSE waiter
  /\ UNCHANGED <<pc, now_utc, results, early, collected>>
  /\ UNCHANGED <<reminderVars, normalizeVars, parserVars, cycleVars, calendarVars>>
Finish(i) ==
  /\ task[i] = "running"
  /\ \E ending \in TaskEndings(i) : future' = [future EXCEPT ![i] = ending]
  /\ task' = [task EXCEPT ![i] = "finished"]
  /\ waiter' = IF pc = "as_completed" THEN Append(waiter, i) ELSE waiter
  /\ UNCHANGED <<pc, all_fixtures, now_utc, results, early, collected>>
  /\ UNCHANGED <<reminderVars, normalizeVars, parserVars, cycleVars, calendarVars>>

\* one round of the as_completed loop: the futures found done on entry come
\* first, in no fixed order, the others in the order they finished
Collect ==
  /\ pc = "as_completed"
  /\ \E i \in Teams :
       /\ IF early # {} THEN i \in early ELSE waiter # <<>> /\ i = Head(waiter)
       /\ early' = early \ {i}
       /\ waiter' = IF early # {} THEN waiter ELSE Tail(waiter)
       /\ collected' = collected \cup {i}
       /\ pc' = CollectFuture(i, future[i], all_fixtures).pc
       /\ all_fixtures' = CollectFuture(i, future[i], all_fixtures).all_fixtures
  /\ UNCHANGED <<now_utc, results, task, future>>
  /\ UNCHANGED <<reminderVars, normalizeVars, parserVars, cycleVars, calendarVars>>

\* the loop ends with the last future and the with block shuts the pool
\* down; line 263 reads the clock
Shutdown ==
  /\ pc = "as_completed"
  /\ collected = Teams
  /\ pc' = "aggregate"
  /\ now_utc' = Timestamp(ToMinutes(RequestNow))
  /\ UNCHANGED <<all_fixtures, results, task, future, early, waiter, collected>>
  /\ UNCHANGED <<reminderVars, normalizeVars, parserVars, cycleVars, calendarVars>>

-----------------------------------------------------------------------------
(* core_logic.py: one call of get_team_fixtures, retrieval by retrieval *)

\* how requests.get(url, headers=headers, timeout=10) can end: status 200,
\* another status, or an exception (connection error, timeout)
FetchOutcomes == {"ok", "status", "error"}

\* the url of fetch_fixtures(team_slug, date_str): lines 80 to 82
NoDate == <<>>
Url(team_slug, date_str) ==
  <<"h","t","t","p","s",":","/","/","w","w","w",".","s","k","y","s","p","o","r","t","s",".","c","o","m","/">>
    \o team_slug \o <<"-","s","c","o","r","e","s","-","f","i","x","t","u","r","e","s">>
    \o (IF date_str # NoDate THEN <<"/">> \o date_str ELSE <<>>)

\* next_month of lines 227 to 231, never leaving the year of now
NextMonthSameYear(now) ==
  [now EXCEPT !.month = (now.month % 12) + 1, !.day = 1]
\* next_month of lines 227 to 231
NextMonth(now) ==
  IF now.month = 12
  THEN [now EXCEPT !.year = now.year + 1, !.month = 1, !.day = 1]
  ELSE [now EXCEPT !.month = now.month + 1, !.day = 1]

\* next_month.strftime("%Y-%m-%d")
StrftimeDate(dt) ==
  Pad4(dt.year) \o <<"-">> \o Pad2(dt.month) \o <<"-">> \o Pad2(dt.day)

\* lines 216 to 224: the slug is looked up; without one the call returns the
\* empty list; with one the current month is retrieved, once, and parsed
FetchCurrentMonth ==
  /\ cycle_pc = "call"
  /\ LET slug == SlugOf(cycle_team)
     IN IF slug = <<>>
        THEN /\ cycle_pc' = "done"
             /\ UNCHANGED <<requests, cycle_fixtures>>
        ELSE \E outcome \in FetchOutcomes :
               /\ requests' = Append(requests, [url |-> Url(slug, NoDate), outcome |-> outcome])
               /\ cycle_fixtures' =
                    cycle_fixtures
                      \o parse_fixtures(fetch_fixtures(cycle_team, FALSE, outcome = "ok"),
                                        cycle_team, cycle_now)
               /\ cycle_pc' = "first"
  /\ UNCHANGED <<cycle_team, cycle_now>>
  /\ UNCHANGED <<reminderVars, normalizeVars, requestVars, parserVars, calendarVars>>

\* lines 227 to 237: the next month is retrieved, once, and parsed; the list
\* is returned
FetchNextMonth ==
  /\ cycle_pc = "first"
  /\ \E outcome \in FetchOutcomes :
       /\ requests' =
            Append(requests,
                   [url |-> Url(SlugOf(cycle_team), StrftimeDate(NextMonth(cycle_now))),
                    outcome |-> outcome])
       /\ cycle_fixtures' =
            cycle_fixtures
              \o parse_fixtures(fetch_fixtures(cycle_team, TRUE, outcome = "ok"),
                                cycle_team, cycle_now)
  /\ cycle_pc' = "done"
  /\ UNCHANGED <<cycle_team, cycle_now>>
  /\ UNCHANGED <<reminderVars, normalizeVars, requestVars, parserVars, calendarVars>>

\* the calls the model makes: every catalog team and two names outside the
\* catalog, at several times of several months
CycleTeams == TeamKeys \cup {<<"E","v","e","r","t","o","n">>, <<>>}
CycleNows ==
  {DateTime(2025, 11, 3, 12, 0), DateTime(2025, 12, 1, 0, 0), DateTime(2025, 12, 31, 23, 59),
   DateTime(2025, 1, 31, 9, 0), DateTime(2024, 2, 29, 10, 0), DateTime(2025, 9, 30, 8, 0)}

InitCycle ==
  /\ cycle_pc = "call"
  /\ cycle_team \in CycleTeams
  /\ cycle_now \in CycleNows
  /\ requests = <<>>
  /\ cycle_fixtures = <<>>

IdleCycle ==
  /\ cycle_pc = "idle"
  /\ cycle_team = <<>>
  /\ cycle_now = DateTime(1970, 1, 1, 0, 0)
  /\ requests = <<>>
  /\ cycle_fixtures = <<>>

-----------------------------------------------------------------------------
(* web_app.py: export_calendar; main.py: execute_add_to_calendar.  Both put *)
(* one selected match into a calendar.  An event is [kind, start, end,      *)
(* alarms]: start and end in minutes of Beijing wall time (Asia/Shanghai    *)
(* has one offset throughout), alarms the minutes before start at which an  *)
(* alarm of the event fires.                                                *)

CalendarEvent(kind, start, end, alarms) ==
  [kind |-> kind, start |-> start, end |-> end, alarms |-> alarms]

NotExported == [done |-> FALSE, events |-> <<>>]

\* lines 29 to 89 of export_calendar for one match, given what the strptime
\* of its time and the strptime of its reminder time give; an exception of
\* either one skips the match
IcsComponents(first, second) ==
  IF ~first.ok \/ ~second.ok THEN <<>>
  ELSE
    LET start_time == ToMinutes(first.dt)
        remind_dt == ToMinutes(second.dt)
    IN IF remind_dt > start_time
       THEN <<CalendarEvent("match", start_time, start_time + 2 * 60, <<>>),
              CalendarEvent("check_result", remind_dt, remind_dt + 15, <<0>>)>>
       ELSE <<CalendarEvent("match", start_time, start_time + 2 * 60,
                            <<start_time - remind_dt>>)>>

\* the components export_calendar adds for one match: lines 25 to 92
export_calendar(time, has_calendar, lib) ==
  IcsComponents(Strptime(time),
                Strptime(calculate_reminder_time(time, has_calendar, lib).value))

\* lines 227 to 302 of execute_add_to_calendar, given what the strptime of
\* the time of the item and the strptime of its reminder time give; an
\* exception leaves the function without inserting
AndroidInserts(first, second) ==
  IF ~first.ok \/ ~second.ok THEN <<>>
  ELSE
    LET match_dt == ToMinutes(first.dt)
        remind_dt == ToMinutes(second.dt)
        minutes_before == match_dt - remind_dt
    IN IF minutes_before < 0
       THEN <<CalendarEvent("match", match_dt, match_dt + 2 * 60, <<>>),
              CalendarEvent("check_result", remind_dt, remind_dt + 15, <<0>>)>>
       ELSE <<CalendarEvent("match", match_dt, match_dt + 2 * 60, <<minutes_before>>)>>

\* the events and reminders execute_add_to_calendar inserts for one item:
\* lines 225 to 302
execute_add_to_calendar(time, has_calendar, lib) ==
  AndroidInserts(Strptime(time),
                 Strptime(calculate_reminder_time(time, has_calendar, lib).value))

\* POST /export with one selected match
ExportCalendar ==
  /\ ~ics.done
  /\ ics' = [done |-> TRUE,
             events |-> export_calendar(match_datetime_str, HAS_CHINESE_CALENDAR, lookup)]
  /\ UNCHANGED <<android, match_datetime_str, HAS_CHINESE_CALENDAR, lookup, reminder>>
  /\ UNCHANGED <<normalizeVars, requestVars, parserVars, cycleVars>>

\* execute_add_to_calendar with one selected item
AddToCalendar ==
  /\ ~android.done
  /\ android' = [done |-> TRUE,
                 events |-> execute_add_to_calendar(match_datetime_str, HAS_CHINESE_CALENDAR,
                                                   lookup)]
  /\ UNCHANGED <<ics, match_datetime_str, HAS_CHINESE_CALENDAR, lookup, reminder>>
  /\ UNCHANGED <<normalizeVars, requestVars, parserVars, cycleVars>>

\* the matches put into a calendar in the model: the sampled times of
\* December 2025, and the strings that are no timestamp
IsDecember2025(t) ==
  Len(t) >= 7 /\ SubSeq(t, 1, 7) = <<"2","0","2","5","-","1","2">>
CalendarInputs ==
  {t \in WellFormedInputs : IsDecember2025(t)} \cup MalformedInputs

InitCalendar ==
  /\ match_datetime_str \in CalendarInputs
  /\ HAS_CHINESE_CALENDAR \in BOOLEAN
  /\ lookup \in LookupResults
  /\ reminder = NoOutcome
  /\ ics = NotExported
  /\ android = NotExported

IdleCalendar ==
  /\ ics = NotExported
  /\ android = NotExported

-----------------------------------------------------------------------------
(* Specifications *)

\* calls of calculate_reminder_time
StartReminder == InitReminder /\ IdleNormalize /\ IdleRequest /\ IdleParser /\ IdleCycle /\ IdleCalendar
NextReminder == CalculateReminderTime
SpecReminder == StartReminder /\ [][NextReminder]_vars

\* calls of normalize_team_name
StartNormalize == InitNormalize /\ IdleReminder /\ IdleRequest /\ IdleParser /\ IdleCycle /\ IdleCalendar
NextNormalize == NormalizeOnce \/ NormalizeTwice
SpecNormalize == StartNormalize /\ [][NextNormalize]_vars

\* the aggregation of get_formatted_fixtures on any gathered list
StartAggregate == InitAggregate /\ IdleReminder /\ IdleNormalize /\ IdleParser /\ IdleCycle /\ IdleCalendar
NextAggregate == Aggregate
SpecAggregate == StartAggregate /\ [][NextAggregate]_vars

\* an "All" request of get_formatted_fixtures
StartAll == InitAll /\ IdleReminder /\ IdleNormalize /\ IdleParser /\ IdleCycle /\ IdleCalendar
NextAll ==
  \/ Submit
  \/ AsCompleted
  \/ \E i \in Teams : Start(i)
  \/ \E i \in Teams : Finish(i)
  \/ Collect
  \/ Shutdown
  \/ Aggregate
SpecAll == StartAll /\ [][NextAll]_vars

\* the same request when the calling thread keeps running, every worker
\* thread of the pool that can take or end a work item eventually does, and
\* requests.get(url, headers=headers, timeout=10) eventually returns or
\* raises
\* (the end of lines 260 to 415 is the one step that takes pc from
\* "aggregate" to "done": the step of Aggregate)
FairAll ==
  /\ WF_vars(Submit \/ AsCompleted \/ Collect \/ Shutdown)
  /\ WF_pc(pc = "aggregate" /\ pc' = "done")
  /\ \A i \in Teams : WF_vars(Start(i)) /\ WF_vars(Finish(i))
SpecAllFair == StartAll /\ [][NextAll]_vars /\ FairAll

\* calls of get_team_fixtures
StartCycle == InitCycle /\ IdleReminder /\ IdleNormalize /\ IdleRequest /\ IdleParser /\ IdleCalendar
NextCycle == FetchCurrentMonth \/ FetchNextMonth
SpecCycle == StartCycle /\ [][NextCycle]_vars

\* one match put into a calendar by each of the two integrations
StartCalendar == InitCalendar /\ IdleNormalize /\ IdleRequest /\ IdleParser /\ IdleCycle
NextCalendar == ExportCalendar \/ AddToCalendar
SpecCalendar == StartCalendar /\ [][NextCalendar]_vars

\* parse_fixtures on pages of several elements
StartPages == InitPages /\ IdleReminder /\ IdleNormalize /\ IdleRequest /\ IdleCycle /\ IdleCalendar
NextPages == ParseFixtures
SpecPages == StartPages /\ [][NextPages]_vars

\* parse_fixtures on pages of one record with two named sides
StartSides == InitSides /\ IdleReminder /\ IdleNormalize /\ IdleRequest /\ IdleCycle /\ IdleCalendar
NextSides == ParseFixtures
SpecSides == StartSides /\ [][NextSides]_vars

\* parse_fixtures on pages of one dated record
StartDates == InitDates /\ IdleReminder /\ IdleNormalize /\ IdleRequest /\ IdleCycle /\ IdleCalendar
NextDates == ParseFixtures
SpecDates == StartDates /\ [][NextDates]_vars

-----------------------------------------------------------------------------
(* Properties of calculate_reminder_time *)

Called == reminder # NoOutcome
Parsed == Strptime(match_datetime_str)

\* minutes after midnight of the match
MinuteOfDay(dt) == dt.hour * 60 + dt.minute

\* the answer of the holiday lookup as the caller of is_holiday_safe sees it:
\* the library's answer when the library is present and answers, the weekend
\* check otherwise
ReportsHoliday(dt) ==
  IF HAS_CHINESE_CALENDAR /\ lookup # "raises"
  THEN lookup = "holiday"
  ELSE Weekday(dt.year, dt.month, dt.day) \in {5, 6}

\* C1: a well-formed match at or before 07:00 gets the same date at 08:00 on
\* a holiday or rest day and the same date at 07:00 otherwise; a match at
\* 07:01 or later does not get the early-morning treatment (its reminder
\* lies 30 minutes before it).
C1_EarlyMorningRule ==
  (Called /\ Parsed.ok) =>
    LET dt == Parsed.dt
    IN /\ ~reminder.raised
       /\ MinuteOfDay(dt) <= 7 * 60 =>
            reminder.value =
              Strftime(DateTime(dt.year, dt.month, dt.day,
                                IF ReportsHoliday(dt) THEN 8 ELSE 7, 0))
       /\ MinuteOfDay(dt) > 7 * 60 =>
            /\ Strptime(reminder.value).ok
            /\ MinuteOfDay(Strptime(reminder.value).dt) = MinuteOfDay(dt) - 30

\* a 07:00 match on a day the lookup reports as a holiday has been answered
C1_Witness ==
  /\ Called /\ Parsed.ok
  /\ MinuteOfDay(Parsed.dt) = 7 * 60
  /\ HAS_CHINESE_CALENDAR /\ lookup = "holiday"
  /\ Weekday(Parsed.dt.year, Parsed.dt.month, Parsed.dt.day) < 5

\* C2: a well-formed match from 07:01 to 23:59 gets exactly the match time
\* minus 30 minutes, on the same date, whatever the holiday lookup says.
C2_HalfHourBefore ==
  (Called /\ Parsed.ok /\ MinuteOfDay(Parsed.dt) > 7 * 60) =>
    LET dt == Parsed.dt
        m == MinuteOfDay(dt) - 30
    IN reminder = Returns(Strftime(DateTime(dt.year, dt.month, dt.day, m \div 60, m % 60)))

\* a 07:01 match on a holiday has been answered
C2_Witness ==
  /\ Called /\ Parsed.ok
  /\ MinuteOfDay(Parsed.dt) = 7 * 60 + 1
  /\ HAS_CHINESE_CALENDAR /\ lookup = "holiday"

LookupUnavailable == ~HAS_CHINESE_CALENDAR \/ lookup = "raises"

\* C11: when the holiday calendar is unavailable, a well-formed call still
\* returns a reminder and raises nothing; for a match at or before 07:00 the
\* reminder is 08:00 of the same date on a Saturday or Sunday and 07:00 of
\* the same date from Monday to Friday.
C11_DegradesToWeekend ==
  (Called /\ Parsed.ok /\ LookupUnavailable) =>
    LET dt == Parsed.dt
        weekend == Weekday(dt.year, dt.month, dt.day) \in {5, 6}
    IN /\ ~reminder.raised
       /\ Strptime(reminder.value).ok
       /\ MinuteOfDay(dt) <= 7 * 60 =>
            reminder.value =
              Strftime(DateTime(dt.year, dt.month, dt.day, IF weekend THEN 8 ELSE 7, 0))

\* a 07:00 match on a Saturday was answered with 08:00 while the library was
\* present and its lookup raised
C11_Witness ==
  /\ Called /\ Parsed.ok
  /\ HAS_CHINESE_CALENDAR /\ lookup = "raises"
  /\ MinuteOfDay(Parsed.dt) = 7 * 60
  /\ Weekday(Parsed.dt.year, Parsed.dt.month, Parsed.dt.day) = 5
  /\ Strptime(reminder.value).ok
  /\ MinuteOfDay(Strptime(reminder.value).dt) = 8 * 60

\* C18: the reminder of a well-formed match falls on the calendar date of
\* the match, under every holiday lookup result.
C18_SameDate ==
  (Called /\ Parsed.ok) =>
    /\ ~reminder.raised
    /\ Strptime(reminder.value).ok
    /\ LET r == Strptime(reminder.value).dt
           dt == Parsed.dt
       IN r.year = dt.year /\ r.month = dt.month /\ r.day = dt.day

\* a match at 00:00 on the first of January was answered
C18_Witness ==
  /\ Called /\ Parsed.ok
  /\ MinuteOfDay(Parsed.dt) = 0
  /\ Parsed.dt.month = 1 /\ Parsed.dt.day = 1
  /\ Strptime(reminder.value).ok
  /\ Strptime(reminder.value).dt.day = 1

-----------------------------------------------------------------------------
(* Properties of normalize_team_name *)

\* C9: normalize_team_name never raises, normalising its own result changes
\* nothing, and an input that matches nothing is returned unchanged.
C9_NormalizeIdempotent ==
  /\ norm_once # NoOutcome =>
       /\ ~norm_once.raised
       /\ name_in \in (Unrecognised \cup FreeStrings) => norm_once.value = name_in
  /\ norm_twice # NoOutcome =>
       /\ ~norm_twice.raised
       /\ norm_twice.value = norm_once.value

\* an alias in another letter case was normalised to a different name, twice
C9_Witness ==
  /\ norm_twice # NoOutcome
  /\ Lower(name_in) = <<"s","p","u","r","s">>
  /\ name_in # Lower(name_in)
  /\ norm_once.value # name_in

-----------------------------------------------------------------------------
(* Properties of the aggregation *)

Done == pc = "done"

\* the club a name stands for: a catalog key, its slug, or the full name the
\* source site prints for it (the keys of team_map, lines 313 to 322)
Club(name) ==
  IF \E i \in 1..Len(TEAMS) : name \in {TEAMS[i].key, TEAMS[i].slug}
  THEN TEAMS[CHOOSE i \in 1..Len(TEAMS) : name \in {TEAMS[i].key, TEAMS[i].slug}].key
  ELSE IF name = <<"M","a","n","c","h","e","s","t","e","r"," ","C","i","t","y">>
       THEN <<"M","a","n"," ","C","i","t","y">>
  ELSE IF name = <<"P","a","r","i","s"," ","S","a","i","n","t","-","G","e","r","m","a","i","n">>
       THEN <<"P","S","G">>
  ELSE name

\* the real-world match of a fixture: its instant and its two clubs
MatchOf(f) == <<f.datetime_utc, {Club(f.team), Club(f.opponent)}>>

\* the same window, written out in seconds
InsideWindow(f) ==
  now_utc <= f.datetime_utc /\ f.datetime_utc <= now_utc + 7 * 24 * 3600

\* C4: two fixtures inside the window with the same instant and the same two
\* clubs, whatever page each came from and however each name is spelled,
\* leave exactly one entry for that match in the output.
C4_OneEntryPerMatch ==
  Done =>
    \A i, j \in DOMAIN all_fixtures :
      (/\ i < j
       /\ InsideWindow(all_fixtures[i]) /\ InsideWindow(all_fixtures[j])
       /\ MatchOf(all_fixtures[i]) = MatchOf(all_fixtures[j]))
      => Cardinality({k \in DOMAIN results :
                        MatchOf(results[k]) = MatchOf(all_fixtures[i])}) = 1

\* C5: every output entry lies in [now, now + 7 days], both ends included,
\* and every gathered fixture in that range is represented in the output by
\* an entry of its instant and deduplication key.
C5_Window ==
  Done =>
    /\ \A k \in DOMAIN results : InsideWindow(results[k])
    /\ \A i \in DOMAIN all_fixtures :
         InsideWindow(all_fixtures[i]) =>
           \E k \in DOMAIN results :
             /\ results[k].datetime_utc = all_fixtures[i].datetime_utc
             /\ DedupKey(results[k]) = DedupKey(all_fixtures[i])

\* a list with a fixture one second early, one at the very end of the
\* window and one a second late has been aggregated, and the output holds
\* an entry at the end of the window
C5_Witness ==
  /\ Done
  /\ \E i \in DOMAIN all_fixtures : all_fixtures[i].datetime_utc = now_utc - 1
  /\ \E i \in DOMAIN all_fixtures :
       all_fixtures[i].datetime_utc = now_utc + 7 * 24 * 3600 + 1
  /\ \E i \in DOMAIN all_fixtures :
       all_fixtures[i].datetime_utc = now_utc + 7 * 24 * 3600
  /\ \E k \in DOMAIN results : results[k].datetime_utc = now_utc + 7 * 24 * 3600

\* the place of the first occurrence of a fixture in a list
FirstPos(fs, f) == CHOOSE i \in DOMAIN fs : fs[i] = f /\ \A j \in 1..(i - 1) : fs[j] # f

\* C10: the output ascends by instant, and entries of the same instant stay
\* in the order deduplication left them in (the order of first appearance
\* in the gathered list).
C10_SortedStable ==
  Done =>
    \A i, j \in DOMAIN results :
      i < j =>
        /\ results[i].datetime_utc <= results[j].datetime_utc
        /\ results[i].datetime_utc = results[j].datetime_utc =>
             FirstPos(all_fixtures, results[i]) < FirstPos(all_fixtures, results[j])

\* a list that starts with its latest fixture and holds two different
\* matches at one instant came out as three entries
C10_Witness ==
  /\ Done
  /\ Len(all_fixtures) = 3 /\ Len(results) = 3
  /\ all_fixtures[1].datetime_utc > all_fixtures[2].datetime_utc
  /\ all_fixtures[2].datetime_utc = all_fixtures[3].datetime_utc

-----------------------------------------------------------------------------
(* Properties of the date and time resolution of parse_fixtures *)

\* the record of the page, when the page holds one
Source == html.elements[1]
SourceParts == Split(Source.date, " ")

\* day, month and time as parsed from the source record, placed in the
\* current year: the first try of line 141
Candidate ==
  StrptimeDayMonth(parse_now.year, StripOrdinal(SourceParts[2]), SourceParts[3], Source.time)

ParsedOne == parsed.returned /\ Len(html.elements) = 1
Emitted == ParsedOne /\ Len(parsed.fixtures) = 1

\* UK civil time of a POSIX timestamp: an hour ahead of UTC during British
\* Summer Time, equal to UTC otherwise
UKCivil(ts) ==
  LET u == ts \div 60 + EpochMinutes
  IN FromMinutes(u + UKOffsetAt(u))

\* the year of the emitted fixture, read off its instant
EmittedYear == UKCivil(parsed.fixtures[1].datetime_utc).year

MinutesPerDay == 24 * 60

C8_RoundTrip ==
  (Emitted /\ Candidate.ok) =>
    LET c == Candidate.dt
        back == UKCivil(parsed.fixtures[1].datetime_utc)
    IN /\ back.day = c.day /\ back.month = c.month
       /\ back.hour = c.hour /\ back.minute = c.minute

\* C8, amended: it does so for every parsed time that exists in UK civil
\* time; a time in the hour skipped when summer time begins (01:00 to 01:59
\* on the last Sunday of March) is emitted as the instant one hour later on
\* the UK clock (02:00 to 02:59 summer time).
C8_RoundTripOfExistingTimes ==
  (Emitted /\ Candidate.ok) =>
    LET c == Candidate.dt
        back == UKCivil(parsed.fixtures[1].datetime_utc)
        skipped == c.month = 3 /\ c.day = LastSunday(back.year, 3) /\ c.hour = 1
    IN /\ back.day = c.day /\ back.month = c.month /\ back.minute = c.minute
       /\ back.hour = IF skipped THEN 2 ELSE c.hour

\* a record at 01:30 on the last Sunday of October, the hour that occurs
\* twice, came out as a fixture
C8_Witness ==
  /\ Emitted /\ Candidate.ok
  /\ Candidate.dt.month = 10 /\ Candidate.dt.hour = 1 /\ Candidate.dt.minute = 30
  /\ Candidate.dt.day = LastSunday(EmittedYear, 10)


-----------------------------------------------------------------------------
(* Properties of the side resolution of parse_fixtures *)

\* what is looked for in the name of a side: the team's name in lower case,
\* and the team's slug, as it is and with its dashes turned into spaces
Needles ==
  {Lower(team_name)}
    \cup (IF SlugOf(team_name) = <<>> THEN {}
          ELSE {SlugOf(team_name), Replace(SlugOf(team_name), "-", " ")})

\* the outcome rule of the side resolution, for a given way of telling
\* whether a side is the team
SidesResolved(home_is_team, away_is_team) ==
  parsed.returned =>
    /\ Len(parsed.fixtures) = 1
    /\ LET f == parsed.fixtures[1]
       IN IF home_is_team
          THEN f.opponent = Source.away /\ f.is_home
          ELSE IF away_is_team
          THEN f.opponent = Source.home /\ ~f.is_home
          ELSE /\ f.opponent = Source.home \o <<" ", "v", "s", " ">> \o Source.away
               /\ f.is_home

\* C15, as stated: a side is the team when one of the needles occurs in the
\* side's full name, letter case apart.
C15_SideByContainment ==
  SidesResolved(\E n \in Needles : Contains(Lower(Source.home), n),
                \E n \in Needles : Contains(Lower(Source.away), n))

\* C15, amended: a side is the team when one of the needles occurs in the
\* side's full name taken in lower case with its dashes turned into spaces
\* (so the slug with dashes is found only when the name holds no dash, and
\* "Paris Saint-Germain" is found by the slug with spaces).  Home is tried
\* first: when it is the team, also when away is too, the opponent is the
\* away side and is_home is true; else when away is the team the opponent is
\* the home side and is_home is false; else the opponent is "<home> vs
\* <away>" and is_home is true.  Every record gives exactly one fixture.
C15_SideByContainmentDashesAsSpaces ==
  SidesResolved(\E n \in Needles : Contains(Replace(Lower(Source.home), "-", " "), n),
                \E n \in Needles : Contains(Replace(Lower(Source.away), "-", " "), n))

\* the page of PSG with "Paris Saint-Germain" at home has been parsed and
\* the away side came out as the opponent
C15_Witness ==
  /\ parsed.returned
  /\ team_name = <<"P","S","G">>
  /\ Source.home = <<"P","a","r","i","s"," ","S","a","i","n","t","-","G","e","r","m","a","i","n">>
  /\ Source.away = <<"A","r","s","e","n","a","l">>
  /\ Len(parsed.fixtures) = 1
  /\ parsed.fixtures[1].opponent = Source.away
  /\ parsed.fixtures[1].is_home

-----------------------------------------------------------------------------
(* Properties of parse_fixtures on whole pages *)

\* the elements of the page that are match objects with a date, a time of
\* day and both team names, in document order
IsUsable(el) == el \in UsableElements
Usable == SelectSeq(html.elements, IsUsable)

\* the instant of a usable element: its day in November 2025 at its time,
\* which UK civil time has at UTC+0
InstantOf(el) ==
  IF el.home = <<"A","r","s","e","n","a","l">>
  THEN Timestamp(ToMinutes(DateTime(2025, 11, 5, 20, 0)))
  ELSE Timestamp(ToMinutes(DateTime(2025, 11, 4, 19, 45)))

\* C16: the call always returns a list; for a page without content it is
\* empty; otherwise it holds one fixture for each usable element of the page,
\* in document order, and nothing for an element that is undecodable, is no
\* match object, lacks its date, its time or its team names, or carries a
\* time that is to be confirmed or invalid, wherever such elements stand.
C16_SkipsPerRecord ==
  parsed.returned =>
    /\ ~html.text => parsed.fixtures = <<>>
    /\ Len(parsed.fixtures) = Len(Usable)
    /\ \A k \in 1..Len(Usable) :
         LET f == parsed.fixtures[k]
             el == Usable[k]
         IN /\ f.datetime_utc = InstantOf(el)
            /\ f.team = team_name
            /\ f.opponent = IF el.home = team_name THEN el.away ELSE el.home
            /\ f.is_home = (el.home = team_name)

\* a page with an undecodable element, then the later match, then the
\* earlier match has been parsed into two fixtures, the later one first
C16_Witness ==
  /\ parsed.returned
  /\ Len(html.elements) = 3
  /\ html.elements[1].kind = "undecodable"
  /\ Len(parsed.fixtures) = 2
  /\ parsed.fixtures[1].datetime_utc > parsed.fixtures[2].datetime_utc

-----------------------------------------------------------------------------
(* Properties of the calendar integrations *)

\* the match start and the reminder instant of the selected match, in minutes
MatchStart == ToMinutes(Parsed.dt)
ReminderInstant ==
  ToMinutes(Strptime(calculate_reminder_time(match_datetime_str, HAS_CHINESE_CALENDAR,
                                             lookup).value).dt)

\* what a calendar holds when the reminder is treated as a post-start
\* notification: the match event without an alarm, and a separate event at
\* the reminder instant that carries the alarm
PostStartHandling(events) ==
  /\ \E k \in DOMAIN events :
       events[k].kind = "match" /\ events[k].start = MatchStart /\ events[k].alarms = <<>>
  /\ \E k \in DOMAIN events :
       /\ events[k].kind = "check_result" /\ events[k].start = ReminderInstant
       /\ events[k].alarms = <<0>>
  /\ \A k \in DOMAIN events : events[k].kind = "match" => events[k].alarms = <<>>

\* C17: for a well-formed match whose reminder instant is at or after the
\* match start, equality included, each of the two integrations emits the
\* match event without an alarm and a separate "check result" event at the
\* reminder instant that carries the alarm.
C17_PostStartSpecialCased ==
  (Parsed.ok /\ ReminderInstant >= MatchStart) =>
    /\ ics.done => PostStartHandling(ics.events)
    /\ android.done => PostStartHandling(android.events)

-----------------------------------------------------------------------------
(* Properties of the "All" request *)

\* the task of team i has ended without a single fixture to give: it raised,
\* or both of its retrievals failed
FailedEntirely(i) ==
  /\ task[i] = "finished"
  /\ future[i].raised \/ (~future[i].first_ok /\ ~future[i].second_ok)

\* the fixtures the tasks that returned have produced, as a set
Produced ==
  UNION {{Result(i, future[i])[k] : k \in DOMAIN Result(i, future[i])} :
           i \in {j \in Teams : task[j] = "finished" /\ ~future[j].raised}}

\* C6: an "All" request in which the task of a team fails entirely still
\* runs to its return (it never ends on the exception, and while it gathers
\* the futures a step of a worker or of the loop is always possible); every
\* task has then ended by itself, no other task has raised; the result holds, once each and ascending by
\* instant, exactly the matches inside the window that the tasks which
\* returned have produced, and no record of a team that failed entirely.
C6_PartialFailure ==
  /\ pc \in {"submit", "as_completed", "aggregate", "done"}
  /\ pc = "as_completed" =>
       ENABLED (Collect \/ Shutdown \/ \E i \in Teams : Start(i) \/ Finish(i))
  /\ Done =>
       /\ \A i \in Teams : task[i] = "finished"
       /\ \A i \in Teams : future[i].raised => TEAMS[i].key \in FlakyTeams
       /\ {DedupKey(results[k]) : k \in DOMAIN results}
            = {DedupKey(f) : f \in {g \in Produced : InsideWindow(g)}}
       /\ \A k \in DOMAIN results : results[k] \in Produced
       /\ \A k, l \in DOMAIN results :
            k < l => /\ DedupKey(results[k]) # DedupKey(results[l])
                     /\ results[k].datetime_utc <= results[l].datetime_utc
       /\ \A i \in Teams :
            FailedEntirely(i) =>
              \A k \in DOMAIN results : results[k].team # TEAMS[i].key

\* a request has returned in which the task of Arsenal raised while five
\* tasks were running or waiting behind it, and the result still holds the
\* Arsenal match as the page of Man City gave it
C6_Witness ==
  /\ Done
  /\ future[1].raised
  /\ FailedEntirely(1)
  /\ \E k \in DOMAIN results :
       /\ results[k].team = <<"M","a","n"," ","C","i","t","y">>
       /\ results[k].opponent = <<"A","r","s","e","n","a","l">>
  /\ Len(results) >= 3

\* the tasks a worker thread is executing, and the number of tasks that ended
InFlight == {i \in Teams : task[i] = "running"}
Ended == {i \in Teams : task[i] = "finished"}

\* C13: every team of the request gets one task, which is queued once,
\* started once and ended once, in this order, and none is left out; at most
\* 5 tasks are in flight in every state; the task of the i-th team, for i
\* beyond 5, is in flight only when at least i - 5 tasks have ended, and a
\* task starts only in a step that finds fewer than 5 in flight.
C13_OneTaskPerTeamFiveInFlight ==
  /\ [](/\ Cardinality(InFlight) <= 5
        /\ DOMAIN task = Teams
        /\ pc # "submit" => \A i \in Teams : task[i] # "new"
        /\ Done => \A i \in Teams : task[i] = "finished"
        /\ \A i \in InFlight : Cardinality(Ended) >= i - 5)
  /\ [][\A i \in Teams :
          task'[i] # task[i] =>
            /\ <<task[i], task'[i]>> \in
                 {<<"new", "queued">>, <<"queued", "running">>, <<"running", "finished">>}
            /\ task'[i] = "running" => Cardinality(InFlight) < 5]_vars

\* five tasks are in flight, the task of the sixth team among them, while
\* one task has ended and the request is gathering
C13_Witness ==
  /\ Cardinality(InFlight) = 5
  /\ task[6] = "running"
  /\ Cardinality(Ended) = 1
  /\ pc = "as_completed"

\* a step of a worker thread: a task starts or ends
WorkerStep == \E i \in Teams : task'[i] # task[i] /\ task'[i] \in {"running", "finished"}

\* C14, as stated: the gathered list holds fixtures only once every task has
\* ended; nothing is merged while a task is still running or waiting.
C14_MergedAfterAllEnded ==
  all_fixtures # <<>> => \A i \in Teams : task[i] = "finished"

\* C14, amended: a worker's step touches its own task and future only and
\* leaves the gathered list, the other futures and the result alone; the
\* gathered list changes only in a step of the calling thread inside the
\* as_completed loop, which appends, whole, the list of one ended task that
\* returned and had not been gathered yet, whether or not other tasks are
\* still running; filtering, deduplication and sorting begin only when
\* every task has ended.
C14_ForkJoin ==
  /\ [](pc \in {"aggregate", "done"} => \A i \in Teams : task[i] = "finished")
  /\ [][/\ WorkerStep =>
             /\ all_fixtures' = all_fixtures /\ results' = results
             /\ collected' = collected /\ pc' = pc
             /\ \E i \in Teams :
                  \A j \in Teams \ {i} : task'[j] = task[j] /\ future'[j] = future[j]
        /\ all_fixtures' # all_fixtures =>
             /\ pc = "as_completed" /\ task' = task /\ future' = future
             /\ \E i \in Teams \ collected :
                  /\ task[i] = "finished" /\ ~future[i].raised
                  /\ collected' = collected \cup {i}
                  /\ all_fixtures' = all_fixtures \o Result(i, future[i])]_vars

\* the list of one task has been merged while another task is still running
C14_Witness ==
  /\ pc = "as_completed"
  /\ all_fixtures # <<>>
  /\ collected # {}
  /\ \E i \in Teams : task[i] = "running"

\* the lists of the tasks that returned, joined in the order of TEAMS: what
\* the loop gathers when the tasks complete in the order of their submission
RECURSIVE GatheredUpTo(_)
GatheredUpTo(n) ==
  IF n = 0 THEN <<>>
  ELSE GatheredUpTo(n - 1)
         \o (IF future[n].raised THEN <<>> ELSE Result(n, future[n]))
GatheredInCatalogOrder == GatheredUpTo(MaxTeams)

\* the keys of a list of fixtures, and its instants in order
FixtureKeys(fs) == {DedupKey(fs[k]) : k \in DOMAIN fs}
Instants(fs) == [k \in DOMAIN fs |-> fs[k].datetime_utc]

\* C19: whatever the order in which the tasks of an "All" request complete,
\* for the same endings of the tasks and the same now the result holds the
\* same set of fixture keys (instant and sorted pair of normalized names) and
\* the same sequence of instants as the request whose tasks complete in the
\* order of TEAMS.
C19_CompletionOrderIrrelevant ==
  Done =>
    LET reference == Upcoming(GatheredInCatalogOrder, now_utc)
    IN /\ FixtureKeys(results) = FixtureKeys(reference)
       /\ Instants(results) = Instants(reference)

\* a request has returned whose tasks all returned but were gathered in
\* another order than that of TEAMS; two matches of its result start at the
\* same instant, and its records are not those of the request gathered in
\* the order of TEAMS
C19_Witness ==
  /\ Done
  /\ \A i \in Teams : ~future[i].raised /\ future[i].first_ok /\ future[i].second_ok
  /\ all_fixtures # GatheredInCatalogOrder
  /\ \E k \in DOMAIN results : \E l \in DOMAIN results :
       k < l /\ results[k].datetime_utc = results[l].datetime_utc
  /\ results # Upcoming(GatheredInCatalogOrder, now_utc)

\* the calling thread is inside as_completed with no finished future left to
\* take: it is blocked on the waiter
CallerWaits == pc = "as_completed" /\ early = {} /\ waiter = <<>> /\ collected # Teams

\* C20: under fair scheduling of the calling thread and of the workers, with
\* every retrieval ending, every task of an "All" request ends and the
\* request returns; filtering starts only once every future was taken and the
\* pool holds no running or waiting task; at the return the result is a list
\* of gathered fixtures, possibly empty; and whenever the calling thread is
\* blocked on the waiter, a task is running or a worker is free to start the
\* oldest waiting one, so it never waits on a task that will never start.
C20_AllRequestTerminates ==
  /\ <>(\A i \in Teams : task[i] = "finished")
  /\ <>Done
  /\ [](pc \in {"aggregate", "done"} =>
          /\ collected = Teams
          /\ \A i \in Teams : task[i] = "finished")
  /\ [](Done =>
          /\ Len(results) <= Len(all_fixtures)
          /\ \A k \in DOMAIN results : \E l \in DOMAIN all_fixtures : results[k] = all_fixtures[l])
  /\ [](CallerWaits =>
          /\ \E i \in Teams : task[i] \in {"queued", "running"}
          /\ ENABLED (\E i \in Teams : Start(i) \/ Finish(i)))

\* the calling thread is blocked on the waiter while five tasks are running
\* and the task of the sixth team has not been started
C20_Witness ==
  /\ CallerWaits
  /\ collected = {}
  /\ Cardinality(InFlight) = 5
  /\ task[6] = "queued"

-----------------------------------------------------------------------------
(* Properties of one call of get_team_fixtures *)

InCatalog == cycle_team \in TeamKeys

\* the url of the page of a team without a date, and with the first day of
\* the month after the month of now
CurrentMonthUrl ==
  Url(SlugOf(cycle_team), NoDate)
NextMonthUrl ==
  LET y == IF cycle_now.month = 12 THEN cycle_now.year + 1 ELSE cycle_now.year
      m == IF cycle_now.month = 12 THEN 1 ELSE cycle_now.month + 1
  IN CurrentMonthUrl \o <<"/">> \o Pad4(y) \o <<"-">> \o Pad2(m) \o <<"-","0","1">>

\* C12: a call for a catalog team makes exactly two retrievals, first the
\* page of the current month, then the page anchored at the first day of the
\* next month (January of the next year in December); however the first one
\* ends, it is made once, it gives no record when it fails, and the second
\* one is made once after it.
C12_TwoFetches ==
  InCatalog =>
    /\ cycle_pc = "call" => requests = <<>>
    /\ cycle_pc = "first" =>
         /\ Len(requests) = 1
         /\ requests[1].url = CurrentMonthUrl
         /\ requests[1].outcome # "ok" => cycle_fixtures = <<>>
    /\ cycle_pc = "done" =>
         /\ Len(requests) = 2
         /\ requests[1].url = CurrentMonthUrl
         /\ requests[2].url = NextMonthUrl
         /\ requests[1].url # requests[2].url
         /\ requests[1].outcome # "ok" =>
              cycle_fixtures =
                IF requests[2].outcome = "ok"
                THEN parse_fixtures(NextMonthPage(cycle_team), cycle_team, cycle_now)
                ELSE <<>>

\* a call for Arsenal made in December has returned: its first retrieval
\* ended on an exception, its second one gave a page with a fixture
C12_Witness ==
  /\ cycle_pc = "done"
  /\ cycle_team = <<"A","r","s","e","n","a","l">>
  /\ cycle_now.month = 12
  /\ Len(requests) = 2
  /\ requests[1].outcome = "error"
  /\ requests[2].outcome = "ok"
  /\ cycle_fixtures # <<>>

====
